---- MODULE Spec2Model ----
(***************************************************************************)
(* Model of the bounded-concurrency batch generation-and-checkpoint        *)
(* pipeline: generate_topics_batch / generate_suggested_prompts_batch      *)
(* (gemini.py) driven by generate_all_topics / generate_all_prompts        *)
(* (main.py) with the lock-guarded CSV append of utils.append_csv_data.    *)
(*                                                                         *)
(* Indices are 1-based here (Python's index i is i+1 in the model).        *)
(* A list is a sequence; a results slot is PyNone or PyList(list).         *)
(***************************************************************************)
EXTENDS Integers, Sequences, FiniteSets, Bags, TLC

\* ------------------------------------------------------------------ bounds
\* Largest number of batch inputs (len(inputs)) explored.
MaxN == 2
\* Largest concurrency limit (batch_size, max_workers) explored.
MaxW == 2

\* ------------------------------------------------------- environment values
None == "None"

\* A slot of the results list: Python's None, or a list of strings.
PyNone == [none |-> TRUE, list |-> <<>>]
PyList(list) == [none |-> FALSE, list |-> list]

\* What a future holds: nothing yet, the returned list, or the raised exception.
Pending == [kind |-> "pending", value |-> <<>>, fault |-> None]
Returned(list) == [kind |-> "returned", value |-> list, fault |-> None]
Raised(fault) == [kind |-> "raised", value |-> <<>>, fault |-> fault]

\* What the external model may answer for one generation call: the parsed
\* list response_dict["topics"] / ["suggested_prompts"].
GenLists == {<<>>, <<"a">>, <<"a", "b">>}

\* The text of a response of the external model: a JSON object with one key
\* and a list of strings under it, or text that is not JSON.
NoResponse == [kind |-> "none", key |-> None, list |-> <<>>]
JsonResponse(key, list) == [kind |-> "json", key |-> key, list |-> list]
MalformedResponse == [kind |-> "malformed", key |-> None, list |-> <<>>]

\* No call of get_languages_for_country has been made.
NoQuery == [country_id |-> 0, result |-> Pending]

\* Exception classes of the first except clause that occur here.
ClassifiedFaults == {"TimeoutError", "ValueError"}
\* Exceptions a generation call may raise: a classified one (a timeout) and
\* one that only the second clause, except Exception, catches.
GenFaults == {"TimeoutError", "KeyError"}

\* Exceptions the checkpoint append may raise inside the callback:
\* UnicodeEncodeError is a ValueError, the others are OSError.
AppendFaults == {"ValueError", "OSError"}

\* ------------------------------------------------------- reference catalog
\* The country whose run is modelled (get_country_id_by_name's result).
country_id == 1

\* Rows of ./data/combos/combos_1.csv as load_combinations_for_country reads them.
AllCombos ==
    << [country_id |-> 1, grade_id |-> 5, subject_id |-> 10],
       [country_id |-> 1, grade_id |-> 5, subject_id |-> 11],
       [country_id |-> 1, grade_id |-> 6, subject_id |-> 10] >>

\* Rows of ./data/topics_1.csv as csv.DictReader reads them in generate_all_prompts.
AllTopicRows ==
    << [country_id |-> 1, grade_id |-> 5, subject_id |-> 10, topic |-> "a"],
       [country_id |-> 1, grade_id |-> 5, subject_id |-> 10, topic |-> "b"],
       [country_id |-> 1, grade_id |-> 6, subject_id |-> 11, topic |-> "a"] >>

\* Results of get_languages_for_country: at most two language names.
LanguageLists == {<<>>, <<"German">>, <<"German", "English">>}

\* The language tables as load_languages and load_popular_languages read them.
VARIABLES
    language_table,         \* rows of language_table.csv: [id, english_name]
    popular_language_table, \* per country id of popular_language.csv: a tuple of
                            \* one or two language ids
    returned_languages      \* what the last get_languages_for_country call gave

langvars == <<language_table, popular_language_table, returned_languages>>

\* The language table of the modelled generation runs.
LanguageTable == << [id |-> 1, english_name |-> "English"],
                    [id |-> 2, english_name |-> "German"] >>

\* str.lower() on the names that occur.
Lower(name) ==
    CASE name = "Germany" -> "germany"
      [] name = "GERMANY" -> "germany"
      [] name = "German" -> "german"
      [] name = "English" -> "english"
      [] OTHER -> name

\* Position of the first row of a table whose english_name matches the name
\* without regard to case (0: there is none, the lookup raises ValueError).
FirstWithName(tbl, name) ==
    IF \E k \in 1..Len(tbl) : Lower(tbl[k].english_name) = Lower(name)
    THEN CHOOSE k \in 1..Len(tbl) :
            /\ Lower(tbl[k].english_name) = Lower(name)
            /\ \A j \in 1..(k - 1) : Lower(tbl[j].english_name) # Lower(name)
    ELSE 0

\* The id get_language_id_by_name returns; 0 stands for raise ValueError.
get_language_id_by_name(language_name) ==
    IF FirstWithName(language_table, language_name) = 0 THEN 0
    ELSE language_table[FirstWithName(language_table, language_name)].id

\* The catalog tables as load_countries, load_subjects and load_grades read
\* them from ./data/*.csv, and the combination files under ./data/combos.
VARIABLES
    countries,     \* rows of country_table.csv: [id, english_name]
    subjects,      \* rows of subject_table.csv: [id, country_id, long_name]
    grades,        \* rows of grade_table.csv: [id, country_id, long_name]
    combos,        \* per country id: the rows of combos_{id}.csv
    returned_names, \* the triple the last get_names_for_combination call returned
    query,         \* the arguments of that call
    cat_pc         \* "idle", "loaded" (tables present), "combined" (files written)

catalogvars == <<countries, subjects, grades, combos, returned_names, query, cat_pc>>

\* The catalog of the modelled generation runs.
CountryTable == << [id |-> 1, english_name |-> "Germany"] >>
GradeTable == << [id |-> 5, country_id |-> 1, long_name |-> "Grade 5"],
                 [id |-> 6, country_id |-> 1, long_name |-> "Grade 6"] >>
SubjectTable == << [id |-> 10, country_id |-> 1, long_name |-> "Biology"],
                   [id |-> 11, country_id |-> 1, long_name |-> "Physics"] >>

\* Position of the first row of a table with the given id (0: there is none),
\* where next(... for e in table if e.id == id ...) stops.
FirstWithId(tbl, id) ==
    IF \E k \in 1..Len(tbl) : tbl[k].id = id
    THEN CHOOSE k \in 1..Len(tbl) :
            /\ tbl[k].id = id
            /\ \A j \in 1..(k - 1) : tbl[j].id # id
    ELSE 0

\* get_names_for_combination's three lookups, "Unknown" for an id without entity.
CountryName(cid) ==
    IF FirstWithId(countries, cid) = 0 THEN "Unknown"
    ELSE countries[FirstWithId(countries, cid)].english_name
GradeName(gid) ==
    IF FirstWithId(grades, gid) = 0 THEN "Unknown"
    ELSE grades[FirstWithId(grades, gid)].long_name
SubjectName(sid) ==
    IF FirstWithId(subjects, sid) = 0 THEN "Unknown"
    ELSE subjects[FirstWithId(subjects, sid)].long_name

\* A variant of get_names_for_combination that returns the names in the
\* order it looks them up: country, subject, grade.
get_names_for_combination_lookupOrder(cid, gid, sid) ==
    <<CountryName(cid), SubjectName(sid), GradeName(gid)>>

get_names_for_combination(cid, gid, sid) ==
    <<CountryName(cid), GradeName(gid), SubjectName(sid)>>

\* ------------------------------------------------------------ input building
\* generate_all_topics: one input and one metadata record per combination.
TopicInputs(combinations) ==
    [i \in 1..Len(combinations) |->
        LET names == get_names_for_combination(combinations[i].country_id,
                         combinations[i].grade_id, combinations[i].subject_id)
        IN [subject |-> names[3], grade |-> names[2], country |-> names[1]]]

combination_metadata(combinations) ==
    [i \in 1..Len(combinations) |->
        [country_id |-> combinations[i].country_id,
         grade_id |-> combinations[i].grade_id,
         subject_id |-> combinations[i].subject_id,
         language_id |-> 0]]

\* generate_all_prompts: for each topic row, one input per language, row-major.
PromptRowOf(i, languages) == ((i - 1) \div Len(languages)) + 1
PromptLangOf(i, languages) == languages[((i - 1) % Len(languages)) + 1]

PromptInputs(topics_data, languages) ==
    [i \in 1..(Len(topics_data) * Len(languages)) |->
        LET row == topics_data[PromptRowOf(i, languages)]
            names == get_names_for_combination(row.country_id, row.grade_id, row.subject_id)
        IN [topic |-> row.topic, country |-> names[1], grade |-> names[2],
            language |-> PromptLangOf(i, languages)]]

\* A variant of input_metadata built in a loop of its own, languages outermost.
input_metadata_languageMajor(topics_data, languages) ==
    [i \in 1..(Len(topics_data) * Len(languages)) |->
        LET row == topics_data[((i - 1) % Len(topics_data)) + 1]
        IN [country_id |-> row.country_id,
            grade_id |-> row.grade_id,
            subject_id |-> row.subject_id,
            language_id |->
                get_language_id_by_name(languages[((i - 1) \div Len(topics_data)) + 1])]]

input_metadata(topics_data, languages) ==
    [i \in 1..(Len(topics_data) * Len(languages)) |->
        LET row == topics_data[PromptRowOf(i, languages)]
        IN [country_id |-> row.country_id,
            grade_id |-> row.grade_id,
            subject_id |-> row.subject_id,
            language_id |-> get_language_id_by_name(PromptLangOf(i, languages))]]

\* --------------------------------------------------------------------- state
VARIABLES
    mode,          \* "topics" (generate_all_topics) or "prompts" (generate_all_prompts)
    callback,      \* "None" (no callback passed) or "save" (save_*_callback)
    batch_size,    \* max_workers of the ThreadPoolExecutor
    inputs,        \* batch_inputs
    metadata,      \* combination_metadata / input_metadata
    pc,            \* where the orchestrating thread is
    submitted,     \* number of inputs handed to executor.submit so far
    work_queue,    \* executor's queue of work items not yet taken by a worker
    fstate,        \* per index: "new", "queued", "running", "finished" (the future)
    outcome,       \* per index: what the future holds
    calls,         \* per index: how often process_single_input was started
    results,       \* the results list
    writes,        \* per index: how often results[index] was assigned
    yielded,       \* indices as_completed has already yielded
    index,         \* index of the future being handled (0: none)
    phase,         \* "try" or "except": which clause the callback is called from
    cb_index,      \* first argument of the running callback invocation
    cb_arg,        \* second argument of the running callback invocation
    cb_rows,       \* batch_topics / batch_prompts built by the running callback
    cb_log,        \* every callback invocation so far, in order
    exc,           \* the exception being propagated or handled (None: none)
    errors,        \* the error lines printed so far, in order
    file,          \* rows of the checkpoint file (<<>>: absent or empty)
    file_lock,     \* TRUE while the Lock is held
    partial,       \* rows left in the file by appends that failed
    next_uuid,     \* source of fresh uuid4 values
    \* upload_suggested_messages_to_db
    impl,          \* "db" (db.py, imported by main.py) or "postgresql" (postgresql.py)
    records,       \* the records to upload
    upload_batch_size, \* batch_size of the upload
    table,         \* rows of ai_chat_suggested_first_message
    table0,        \* the table when the current upload started
    batch_start,   \* the loop variable i of the batch loop (0-based offset)
    batch,         \* records[i:i + batch_size]
    total_imported,
    upload_errors, \* the list errors
    attempts,      \* the batches handled by the current upload, with their outcome
    runs,          \* number of uploads of the records started so far
    upc,           \* where the upload is
    \* generate_topics / generate_suggested_prompts
    function,      \* the client function that is called
    response,      \* what the external model answers to the request
    num_strings,   \* num_topics / num_prompts
    generated,     \* what the call gave: a list, or a raised exception
    \* the commands of main.py before the batch or the upload starts
    requested_country, \* --country
    run_languages, \* languages (generate_all_prompts)
    topics_file,   \* ./data/topics_{country_id}.csv as generate_all_prompts finds it
    topics_read,   \* topics_data
    upload_file,   \* the file at --file-path as upload_to_db finds it
    read_pos,      \* number of rows of it that the reader has handed out
    parsed         \* the list records that upload_to_db builds

config == <<mode, callback, batch_size, inputs, metadata>>
pool == <<submitted, work_queue, fstate, outcome, calls>>
collector == <<results, writes, yielded, index, phase, exc, errors>>
cbstate == <<cb_index, cb_arg, cb_rows, cb_log>>
disk == <<file, file_lock, partial, next_uuid>>
genvars == <<config, pool, collector, cbstate, disk, pc>>
sinkvars == <<impl, records, upload_batch_size, table, table0, batch_start, batch,
              total_imported, upload_errors, attempts, runs, upc>>
clientvars == <<function, response, num_strings, generated>>
cmdvars == <<requested_country, run_languages, topics_file, topics_read,
             upload_file, read_pos, parsed>>
vars == <<genvars, catalogvars, langvars, sinkvars, clientvars, cmdvars>>

N == Len(inputs)
Indices == 1..N

\* The header row written by writer.writeheader(), told from a data row by its text.
Header == [country_id |-> 0, grade_id |-> 0, subject_id |-> 0,
           language_id |-> 0, uuid |-> 0, text |-> "#header", inv |-> 0]
\* Content of a checkpoint file left over from an earlier run.
StaleFile == <<Header, [country_id |-> 1, grade_id |-> 6, subject_id |-> 11,
                        language_id |-> 0, uuid |-> 0, text |-> "old", inv |-> 0]>>

Min(a, b) == IF a < b THEN a ELSE b

Running == {i \in Indices : fstate[i] = "running"}
Finished == {i \in Indices : fstate[i] = "finished"}

\* A variant of BuildRows that reads the metadata of the next index.
BuildRows_otherMeta(i, strings, uuid0) ==
    [j \in 1..Len(strings) |->
        [country_id |-> metadata[(i % N) + 1].country_id,
         grade_id |-> metadata[(i % N) + 1].grade_id,
         subject_id |-> metadata[(i % N) + 1].subject_id,
         language_id |-> metadata[(i % N) + 1].language_id,
         uuid |-> IF mode = "prompts" THEN uuid0 + j ELSE 0,
         text |-> strings[j],
         inv |-> Len(cb_log) + 1]]

\* The rows save_topics_callback / save_prompts_callback build for one result:
\* one per string, tagged with the metadata recorded for that index. A topics
\* row has no uuid and no language_id (0 here); a prompts row gets a fresh
\* uuid4 (created_on, a timestamp, is left out). The field inv is not in the
\* file: it records which callback invocation (position in cb_log) built the
\* row, so that the row groups of the file can be told apart.
BuildRows(i, strings, uuid0) ==
    [j \in 1..Len(strings) |->
        [country_id |-> metadata[i].country_id,
         grade_id |-> metadata[i].grade_id,
         subject_id |-> metadata[i].subject_id,
         language_id |-> metadata[i].language_id,
         uuid |-> IF mode = "prompts" THEN uuid0 + j ELSE 0,
         text |-> strings[j],
         inv |-> Len(cb_log) + 1]]

\* ---------------------------------------------------------------------- Init
\* The catalog of a generation run: the tables are on disk, nothing is computed.
CatalogIdle ==
    /\ countries = CountryTable
    /\ subjects = SubjectTable
    /\ grades = GradeTable
    /\ combos = <<>>
    /\ returned_names = <<>>
    /\ query = <<>>
    /\ cat_pc = "idle"

\* The language tables of a generation run.
LangIdle ==
    /\ language_table = LanguageTable
    /\ popular_language_table = <<>>
    /\ returned_languages = NoQuery

\* No generation call of its own and no command prologue is modelled.
ClientIdle ==
    /\ function = None
    /\ response = NoResponse
    /\ num_strings = 0
    /\ generated = Pending

CmdIdle ==
    /\ requested_country = "Germany"
    /\ run_languages = <<>>
    /\ topics_file = PyNone
    /\ topics_read = <<>>
    /\ upload_file = PyNone
    /\ read_pos = 0
    /\ parsed = <<>>

\* No upload is running.
SinkIdle ==
    /\ impl = "db"
    /\ records = <<>>
    /\ upload_batch_size = 1
    /\ table = {}
    /\ table0 = {}
    /\ batch_start = 0
    /\ batch = <<>>
    /\ total_imported = 0
    /\ upload_errors = <<>>
    /\ attempts = <<>>
    /\ runs = 0
    /\ upc = "idle"

Init ==
    /\ CatalogIdle
    /\ LangIdle
    /\ SinkIdle
    /\ ClientIdle
    /\ CmdIdle
    /\ mode \in {"topics", "prompts"}
    /\ callback \in {None, "save"}
    /\ batch_size \in 1..MaxW
    /\ \/ /\ mode = "topics"
          /\ \E n \in 0..Min(MaxN, Len(AllCombos)) :
                LET combinations == SubSeq(AllCombos, 1, n)
                IN /\ inputs = TopicInputs(combinations)
                   /\ metadata = combination_metadata(combinations)
       \/ /\ mode = "prompts"
          /\ \E t \in 0..Min(MaxN, Len(AllTopicRows)), languages \in LanguageLists :
                /\ t * Len(languages) <= MaxN
                /\ inputs = PromptInputs(SubSeq(AllTopicRows, 1, t), languages)
                /\ metadata = input_metadata(SubSeq(AllTopicRows, 1, t), languages)
    /\ pc = IF callback = "save" THEN "open_csv" ELSE "submit"
    /\ submitted = 0
    /\ work_queue = <<>>
    /\ fstate = [i \in 1..Len(inputs) |-> "new"]
    /\ outcome = [i \in 1..Len(inputs) |-> Pending]
    /\ calls = [i \in 1..Len(inputs) |-> 0]
    /\ results = <<>>
    /\ writes = [i \in 1..Len(inputs) |-> 0]
    /\ yielded = {}
    /\ index = 0
    /\ phase = "try"
    /\ exc = None
    /\ errors = <<>>
    /\ cb_index = 0
    /\ cb_arg = <<>>
    /\ cb_rows = <<>>
    /\ cb_log = <<>>
    /\ file \in IF callback = "save" THEN {<<>>, StaleFile} ELSE {<<>>}
    /\ file_lock = FALSE
    /\ partial = <<>>
    /\ next_uuid = 0

\* ------------------------------------------------- generate_all_*: the header
\* A variant of OpenCsv that opens the file in mode 'a' to write the header.
OpenCsv_append ==
    /\ pc = "open_csv"
    /\ file' = file \o <<Header>>
    /\ pc' = "submit"
    /\ UNCHANGED <<catalogvars, langvars, sinkvars, clientvars, cmdvars, config, pool, collector, cbstate, file_lock, partial, next_uuid>>

\* open(csv_filename, "w") truncates or creates the file; writeheader().
OpenCsv ==
    /\ pc = "open_csv"
    /\ file' = <<Header>>
    /\ pc' = "submit"
    /\ UNCHANGED <<catalogvars, langvars, sinkvars, clientvars, cmdvars, config, pool, collector, cbstate, file_lock, partial, next_uuid>>

\* ------------------------------------------------------- the executor's side
\* executor.submit(process_single_input, input_data) for the next input.
Submit ==
    /\ pc = "submit"
    /\ submitted < N
    /\ submitted' = submitted + 1
    /\ fstate' = [fstate EXCEPT ![submitted + 1] = "queued"]
    /\ work_queue' = Append(work_queue, submitted + 1)
    /\ UNCHANGED <<catalogvars, langvars, sinkvars, clientvars, cmdvars, config, outcome, calls, collector, cbstate, disk, pc>>

\* A variant of WorkerFree: one thread per submitted input, no limit.
WorkerFree_unbounded == TRUE

\* A worker thread is free when fewer than max_workers work items are running.
WorkerFree == Cardinality(Running) < batch_size

\* A variant of StartCall that leaves the work item in the queue, so that
\* another worker can take it again.
StartCall_noPop ==
    /\ work_queue # <<>>
    /\ WorkerFree
    /\ LET i == Head(work_queue)
       IN /\ fstate' = [fstate EXCEPT ![i] = "running"]
          /\ calls' = [calls EXCEPT ![i] = @ + 1]
    /\ UNCHANGED <<catalogvars, langvars, sinkvars, clientvars, cmdvars, config, submitted, work_queue, outcome, collector, cbstate, disk, pc>>

\* A free worker takes the oldest queued work item and starts
\* process_single_input on it.
StartCall ==
    /\ work_queue # <<>>
    /\ WorkerFree
    /\ LET i == Head(work_queue)
       IN /\ fstate' = [fstate EXCEPT ![i] = "running"]
          /\ calls' = [calls EXCEPT ![i] = @ + 1]
    /\ work_queue' = Tail(work_queue)
    /\ UNCHANGED <<catalogvars, langvars, sinkvars, clientvars, cmdvars, config, submitted, outcome, collector, cbstate, disk, pc>>

\* A variant of ReturnCall for a callback attached to the future, which the
\* worker thread runs when the call completes.
ReturnCall_runsCallback(i, list) ==
    /\ fstate[i] = "running"
    /\ outcome' = [outcome EXCEPT ![i] = Returned(list)]
    /\ fstate' = [fstate EXCEPT ![i] = "finished"]
    /\ cb_log' = Append(cb_log, [index |-> i, result |-> list, phase |-> "try",
                                 status |-> "returned"])
    /\ UNCHANGED <<catalogvars, langvars, sinkvars, clientvars, cmdvars, config, submitted, work_queue, calls, collector, cb_index, cb_arg, cb_rows, disk, pc>>

\* generate_topics / generate_suggested_prompts returns the parsed list.
ReturnCall(i, list) ==
    /\ fstate[i] = "running"
    /\ outcome' = [outcome EXCEPT ![i] = Returned(list)]
    /\ fstate' = [fstate EXCEPT ![i] = "finished"]
    /\ UNCHANGED <<catalogvars, langvars, sinkvars, clientvars, cmdvars, config, submitted, work_queue, calls, collector, cbstate, disk, pc>>

\* The generation call raises; the future stores the exception.
RaiseCall(i, fault) ==
    /\ fstate[i] = "running"
    /\ outcome' = [outcome EXCEPT ![i] = Raised(fault)]
    /\ fstate' = [fstate EXCEPT ![i] = "finished"]
    /\ UNCHANGED <<catalogvars, langvars, sinkvars, clientvars, cmdvars, config, submitted, work_queue, calls, collector, cbstate, disk, pc>>

\* ------------------------------------------------- the orchestrating thread
\* results = [None] * len(inputs), once every input has been submitted.
AllocResults ==
    /\ pc = "submit"
    /\ submitted = N
    /\ results' = [i \in Indices |-> PyNone]
    /\ pc' = "as_completed"
    /\ UNCHANGED <<catalogvars, langvars, sinkvars, clientvars, cmdvars, config, pool, writes, yielded, index, phase, exc, errors, cbstate, disk>>

\* as_completed yields a finished future it has not yielded yet;
\* index = future_to_input[future].
NextFuture(i) ==
    /\ pc = "as_completed"
    /\ i \in Finished \ yielded
    /\ index' = i
    /\ yielded' = yielded \cup {i}
    /\ phase' = "try"
    /\ pc' = "result"
    /\ UNCHANGED <<catalogvars, langvars, sinkvars, clientvars, cmdvars, config, pool, results, writes, exc, errors, cbstate, disk>>

\* A variant of CallCallback that passes the index of another input.
CallCallback_wrongIndex(i, arg) ==
    IF callback = None
    THEN /\ pc' = "as_completed"
         /\ UNCHANGED <<cb_index, cb_arg>>
    ELSE /\ pc' = "callback"
         /\ cb_index' = (i % N) + 1
         /\ cb_arg' = arg

\* if callback: callback(index, result), else on to the next future.
CallCallback(i, arg) ==
    IF callback = None
    THEN /\ pc' = "as_completed"
         /\ UNCHANGED <<cb_index, cb_arg>>
    ELSE /\ pc' = "callback"
         /\ cb_index' = i
         /\ cb_arg' = arg

\* try: result = future.result(); results[index] = result; then the callback.
StoreResult ==
    /\ pc = "result"
    /\ outcome[index].kind = "returned"
    /\ results' = [results EXCEPT ![index] = PyList(outcome[index].value)]
    /\ writes' = [writes EXCEPT ![index] = @ + 1]
    /\ CallCallback(index, outcome[index].value)
    /\ UNCHANGED <<catalogvars, langvars, sinkvars, clientvars, cmdvars, config, pool, yielded, index, phase, exc, errors, cb_rows, cb_log, disk>>

\* future.result() re-raises the exception of the generation call.
ResultRaises ==
    /\ pc = "result"
    /\ outcome[index].kind = "raised"
    /\ exc' = outcome[index].fault
    /\ pc' = "except"
    /\ UNCHANGED <<catalogvars, langvars, sinkvars, clientvars, cmdvars, config, pool, results, writes, yielded, index, phase, errors, cbstate, disk>>

\* A variant of Handle that aborts the batch on the first error.
Handle_reraise(unexpected) ==
    /\ errors' = Append(errors, [index |-> index, unexpected |-> unexpected, fault |-> exc])
    /\ pc' = "raised"
    /\ UNCHANGED <<catalogvars, langvars, sinkvars, clientvars, cmdvars, config, pool, results, writes, yielded, index, phase, exc, cbstate, disk>>

\* A variant of Handle that reports the failure by skipping the callback.
Handle_skipCallback(unexpected) ==
    /\ errors' = Append(errors, [index |-> index, unexpected |-> unexpected, fault |-> exc])
    /\ results' = [results EXCEPT ![index] = PyList(<<>>)]
    /\ writes' = [writes EXCEPT ![index] = @ + 1]
    /\ exc' = None
    /\ phase' = "except"
    /\ pc' = "as_completed"
    /\ UNCHANGED <<catalogvars, langvars, sinkvars, clientvars, cmdvars, config, pool, yielded, index, cbstate, disk>>

\* The body shared by both except clauses: print, results[index] = [],
\* then callback(index, []).
Handle(unexpected) ==
    /\ errors' = Append(errors, [index |-> index, unexpected |-> unexpected, fault |-> exc])
    /\ results' = [results EXCEPT ![index] = PyList(<<>>)]
    /\ writes' = [writes EXCEPT ![index] = @ + 1]
    /\ exc' = None
    /\ phase' = "except"
    /\ CallCallback(index, <<>>)
    /\ UNCHANGED <<catalogvars, langvars, sinkvars, clientvars, cmdvars, config, pool, yielded, index, cb_rows, cb_log, disk>>

\* except (ConnectionError, TimeoutError, ValueError, RuntimeError)
ExceptClassified ==
    /\ pc = "except"
    /\ exc \in ClassifiedFaults
    /\ Handle(FALSE)

\* except Exception
ExceptUnexpected ==
    /\ pc = "except"
    /\ exc \notin ClassifiedFaults
    /\ Handle(TRUE)

\* as_completed is exhausted; the with block ends (every future is finished,
\* so shutdown(wait=True) has nothing to wait for) and results is returned.
Return ==
    /\ pc = "as_completed"
    /\ yielded = Indices
    /\ pc' = "returned"
    /\ UNCHANGED <<catalogvars, langvars, sinkvars, clientvars, cmdvars, config, pool, collector, cbstate, disk>>

\* ------------------------------- save_topics_callback / save_prompts_callback
\* One entry of cb_log: callback(index, result) was invoked from the try
\* block or from an except clause; status is "running", "returned" or "raised".
Invocation(i, result, status) ==
    [index |-> i, result |-> result, phase |-> phase, status |-> status]

SetLastStatus(log, status) ==
    [log EXCEPT ![Len(log)] = [@ EXCEPT !.status = status]]

\* A variant of CallbackSkipsEmpty without the early return: the callback
\* goes on to append an empty list of rows under the lock.
CallbackSkipsEmpty_noSkip ==
    /\ pc = "callback"
    /\ cb_arg = <<>>
    /\ cb_log' = Append(cb_log, Invocation(cb_index, cb_arg, "running"))
    /\ cb_rows' = <<>>
    /\ pc' = "lock"
    /\ UNCHANGED <<catalogvars, langvars, sinkvars, clientvars, cmdvars, config, pool, collector, cb_index, cb_arg, disk>>

\* if not topics: return
CallbackSkipsEmpty ==
    /\ pc = "callback"
    /\ cb_arg = <<>>
    /\ cb_log' = Append(cb_log, Invocation(cb_index, cb_arg, "returned"))
    /\ pc' = "as_completed"
    /\ UNCHANGED <<catalogvars, langvars, sinkvars, clientvars, cmdvars, config, pool, collector, cb_index, cb_arg, cb_rows, disk>>

\* The loop that builds batch_topics / batch_prompts from metadata[index].
CallbackBuildsRows ==
    /\ pc = "callback"
    /\ cb_arg # <<>>
    /\ cb_log' = Append(cb_log, Invocation(cb_index, cb_arg, "running"))
    /\ cb_rows' = BuildRows(cb_index, cb_arg, next_uuid)
    /\ next_uuid' = IF mode = "prompts" THEN next_uuid + Len(cb_arg) ELSE next_uuid
    /\ pc' = "lock"
    /\ UNCHANGED <<catalogvars, langvars, sinkvars, clientvars, cmdvars, config, pool, collector, cb_index, cb_arg, file, file_lock, partial>>

\* A variant of AcquireLock that appends without taking the lock.
AcquireLock_noLock ==
    /\ pc = "lock"
    /\ pc' = "append"
    /\ UNCHANGED <<catalogvars, langvars, sinkvars, clientvars, cmdvars, config, pool, collector, cbstate, disk>>

\* with file_lock: (entry)
AcquireLock ==
    /\ pc = "lock"
    /\ ~file_lock
    /\ file_lock' = TRUE
    /\ pc' = "append"
    /\ UNCHANGED <<catalogvars, langvars, sinkvars, clientvars, cmdvars, config, pool, collector, cbstate, file, partial, next_uuid>>

\* A variant of append_csv_data that writes the new rows right after the
\* header, before the rows already there.
append_csv_data_afterHeader(content, data) ==
    IF content = <<>> THEN data ELSE <<Head(content)>> \o data \o Tail(content)

\* A variant of append_csv_data that opens the file in mode 'w'.
append_csv_data_truncate(content, data) == data

\* What open(filename, 'a') followed by writer.writerows(data) leaves in the file.
append_csv_data(content, data) == content \o data

\* append_csv_data completes: every row is in the file.
AppendOk ==
    /\ pc = "append"
    /\ file' = append_csv_data(file, cb_rows)
    /\ pc' = "unlock"
    /\ UNCHANGED <<catalogvars, langvars, sinkvars, clientvars, cmdvars, config, pool, collector, cbstate, file_lock, partial, next_uuid>>

\* append_csv_data raises: open fails (nothing written) or a row cannot be
\* written (the rows before it are flushed when the file is closed).
AppendFail(k, fault) ==
    /\ pc = "append"
    /\ k \in 0..(Len(cb_rows) - 1)
    /\ file' = append_csv_data(file, SubSeq(cb_rows, 1, k))
    /\ partial' = partial \o SubSeq(cb_rows, 1, k)
    /\ exc' = fault
    /\ pc' = "unlock"
    /\ UNCHANGED <<catalogvars, langvars, sinkvars, clientvars, cmdvars, config, pool, results, writes, yielded, index, phase, errors,
                   cbstate, file_lock, next_uuid>>

\* with file_lock: (normal exit); the callback returns.
UnlockReturn ==
    /\ pc = "unlock"
    /\ exc = None
    /\ file_lock' = FALSE
    /\ cb_log' = SetLastStatus(cb_log, "returned")
    /\ pc' = "as_completed"
    /\ UNCHANGED <<catalogvars, langvars, sinkvars, clientvars, cmdvars, config, pool, collector, cb_index, cb_arg, cb_rows, file, partial, next_uuid>>

\* A variant of UnlockRaise for a lock taken with acquire() and released
\* with release() after the append: an exception skips the release.
UnlockRaise_keepLock ==
    /\ pc = "unlock"
    /\ exc # None
    /\ cb_log' = SetLastStatus(cb_log, "raised")
    /\ pc' = "except"
    /\ UNCHANGED <<catalogvars, langvars, sinkvars, clientvars, cmdvars, config, pool, collector, cb_index, cb_arg, cb_rows, disk>>

\* with file_lock: (exit by exception); the exception leaves the callback
\* inside the try block of the batch function, whose except clauses catch it.
UnlockRaise ==
    /\ pc = "unlock"
    /\ exc # None
    /\ file_lock' = FALSE
    /\ cb_log' = SetLastStatus(cb_log, "raised")
    /\ pc' = "except"
    /\ UNCHANGED <<catalogvars, langvars, sinkvars, clientvars, cmdvars, config, pool, collector, cb_index, cb_arg, cb_rows, file, partial, next_uuid>>

\* ---------------------------------------------------------------------- Next
Next ==
    \/ OpenCsv
    \/ Submit
    \/ StartCall
    \/ \E i \in Indices, list \in GenLists : ReturnCall(i, list)
    \/ \E i \in Indices, fault \in GenFaults : RaiseCall(i, fault)
    \/ AllocResults
    \/ \E i \in Indices : NextFuture(i)
    \/ StoreResult
    \/ ResultRaises
    \/ ExceptClassified
    \/ ExceptUnexpected
    \/ CallbackSkipsEmpty
    \/ CallbackBuildsRows
    \/ AcquireLock
    \/ AppendOk
    \/ \E k \in 0..(Len(cb_rows) - 1), fault \in AppendFaults : AppendFail(k, fault)
    \/ UnlockReturn
    \/ UnlockRaise
    \/ Return

Spec == Init /\ [][Next]_vars

\* The scheduling of the threads: the orchestrating thread (Orchestrator, its
\* steps) and a free worker (StartCall) that can take a step eventually take
\* it, and every generation call that was started eventually returns or
\* raises (CallCompletes).
Orchestrator ==
    \/ OpenCsv \/ Submit \/ AllocResults
    \/ \E i \in Indices : NextFuture(i)
    \/ StoreResult \/ ResultRaises \/ ExceptClassified \/ ExceptUnexpected
    \/ CallbackSkipsEmpty \/ CallbackBuildsRows \/ AcquireLock
    \/ AppendOk
    \/ \E k \in 0..(Len(cb_rows) - 1), fault \in AppendFaults : AppendFail(k, fault)
    \/ UnlockReturn \/ UnlockRaise \/ Return

CallCompletes ==
    \E i \in Indices : \/ \E list \in GenLists : ReturnCall(i, list)
                       \/ \E fault \in GenFaults : RaiseCall(i, fault)

Fairness ==
    /\ WF_vars(Orchestrator)
    /\ WF_vars(StartCall)
    /\ WF_vars(CallCompletes)

FairSpec == Spec /\ Fairness

\* ------------------------------------------------------------------- claims
\* Helpers of the statements below.
GenReturned(i) == outcome[i].kind = "returned"
GenRaised(i) == outcome[i].kind = "raised"

\* The invocations callback(i, ...) logged so far.
InvocationsOf(i) == {k \in 1..Len(cb_log) : cb_log[k].index = i}

\* The orchestrating thread is done with index i.
Handled(i) == i \in yielded /\ (index # i \/ pc \in {"as_completed", "returned"})

\* C1: when the batch function returns, results has one slot per input and
\* results[i] is the list the generation call for inputs[i] returned, or the
\* empty list if that call failed.
C1_IndexCorrespondence ==
    pc = "returned" =>
        /\ Len(results) = N
        /\ \A i \in Indices :
              results[i] = IF GenReturned(i) THEN PyList(outcome[i].value) ELSE PyList(<<>>)

\* C2: when generation calls failed for the indices of a set S, every index
\* outside S is resolved to its own generated list when the batch returns.
C2_FaultIsolation ==
    (pc = "returned" /\ \E j \in Indices : GenRaised(j)) =>
        \A i \in Indices : GenReturned(i) => results[i].list = outcome[i].value

\* C3: with a callback supplied, the callback is invoked exactly once per
\* index: never twice, and once for each index by the time the batch returns.
C3_CallbackExactlyOnce ==
    callback # None =>
        \A i \in Indices :
            /\ Cardinality(InvocationsOf(i)) <= 1
            /\ pc = "returned" => Cardinality(InvocationsOf(i)) = 1

\* C4: once the orchestrator is done with an index whose generation call
\* failed, results[i] is the empty list and, with a callback supplied, the
\* callback has been invoked with (i, empty list).
C4_FailureReportedEmpty ==
    \A i \in Indices :
        (GenRaised(i) /\ Handled(i)) =>
            /\ results[i] = PyList(<<>>)
            /\ callback # None =>
                  \E k \in InvocationsOf(i) : cb_log[k].result = <<>>

\* C4's case: a batch with a callback has returned, one call failed and
\* another one produced a non-empty list.
C4_Witness ==
    /\ pc = "returned"
    /\ callback = "save"
    /\ \E i, j \in Indices : GenRaised(i) /\ GenReturned(j) /\ outcome[j].value # <<>>

\* C5: every slot is written exactly once: never a second time, and once by
\* the time the batch returns, when no slot is None any more.
C5_SlotWrittenOnce ==
    \A i \in Indices :
        /\ writes[i] <= 1
        /\ pc = "returned" => (writes[i] = 1 /\ results[i] # PyNone)

\* C6: the callback for an index is invoked only after the generation call
\* for that index has returned or raised (its future is finished).
C6_CallbackAfterCall ==
    /\ \A k \in 1..Len(cb_log) : fstate[cb_log[k].index] = "finished"
    /\ pc = "callback" => fstate[cb_index] = "finished"

\* C6's case: the callback for a later index fired before the one for an
\* earlier index.
C6_Witness ==
    \E k, l \in 1..Len(cb_log) : k < l /\ cb_log[k].index > cb_log[l].index

\* C7: at most batch_size generation calls are executing at any moment, and
\* every submitted input that is not yet started waits in the work queue.
C7_AtMostWRunning ==
    /\ Cardinality(Running) <= batch_size
    /\ \A i \in Indices :
          fstate[i] = "queued" <=> \E k \in 1..Len(work_queue) : work_queue[k] = i

\* C7's case: more inputs than workers; every worker is busy and an input waits.
C7_Witness ==
    /\ N > batch_size
    /\ Cardinality(Running) = batch_size
    /\ work_queue # <<>>

\* C8: under fair scheduling, and with every generation call returning or
\* raising eventually, the batch returns with every slot resolved and every
\* generation call run to its end (none cancelled, none left in the queue).
C8_BatchTerminates ==
    <>(/\ pc = "returned"
       /\ Len(results) = N
       /\ \A i \in Indices : results[i] # PyNone /\ fstate[i] = "finished")

\* C8's case: a batch has returned in which one call timed out while a
\* sibling that had to wait for a worker still delivered its list.
C8_Witness ==
    /\ pc = "returned"
    /\ N > batch_size
    /\ \E i, j \in Indices :
          /\ outcome[i] = Raised("TimeoutError")
          /\ i < j
          /\ results[j].list # <<>>

\* C9: the generation function is started at most once per index, exactly
\* once for every index whose future is running or finished, and exactly
\* once for every index by the time the batch returns, failed or not.
C9_CalledExactlyOnce ==
    \A i \in Indices :
        /\ calls[i] <= 1
        /\ fstate[i] \in {"running", "finished"} <=> calls[i] = 1
        /\ pc = "returned" => calls[i] = 1

\* C9's case: a returned batch in which a call failed with each kind of
\* fault, each called once.
C9_Witness ==
    /\ pc = "returned"
    /\ \E i, j \in Indices :
          /\ outcome[i] = Raised("TimeoutError")
          /\ outcome[j] = Raised("KeyError")
          /\ calls[i] = 1
          /\ calls[j] = 1

\* The bag of the elements of a sequence.
BagOf(seq) ==
    [x \in {seq[k] : k \in 1..Len(seq)} |-> Cardinality({k \in 1..Len(seq) : seq[k] = x})]

\* A row without its uuid (and without the invocation that built it).
NoUuid(row) == [row EXCEPT !.uuid = 0, !.inv = 0]
NoUuidSeq(rows) == [k \in 1..Len(rows) |-> NoUuid(rows[k])]

\* One row per string of a result passed to the callback for index i.
RowsExpectedFor(i, strings) ==
    [j \in 1..Len(strings) |->
        [country_id |-> metadata[i].country_id, grade_id |-> metadata[i].grade_id,
         subject_id |-> metadata[i].subject_id, language_id |-> metadata[i].language_id,
         uuid |-> 0, text |-> strings[j], inv |-> 0]]

\* The rows expected for the invocations of a log that satisfy keep, in log order.
RECURSIVE RowsExpected(_, _)
RowsExpected(log, statuses) ==
    IF Len(log) = 0 THEN <<>>
    ELSE LET last == log[Len(log)]
         IN RowsExpected(SubSeq(log, 1, Len(log) - 1), statuses)
            \o (IF last.status \in statuses
                THEN RowsExpectedFor(last.index, last.result) ELSE <<>>)

\* The header is the first row and occurs nowhere else.
HeaderOnceFirst ==
    /\ Len(file) >= 1
    /\ file[1] = Header
    /\ \A k \in 2..Len(file) : file[k] # Header

\* C10 as stated: after a run the file is the header followed by exactly one
\* row per string of every non-empty result passed to the callback.
C10_CheckpointComplete ==
    (pc = "returned" /\ callback = "save") =>
        /\ HeaderOnceFirst
        /\ BagOf(NoUuidSeq(Tail(file))) = BagOf(RowsExpected(cb_log, {"returned", "raised"}))

\* C10 as amended: after a run the file is the header followed by exactly
\* one row per string of every non-empty result whose append completed,
\* plus the rows that appends which failed had written before failing.
C10_CheckpointOfCompletedAppends ==
    (pc = "returned" /\ callback = "save") =>
        /\ HeaderOnceFirst
        /\ BagOf(NoUuidSeq(Tail(file)))
              = BagOf(RowsExpected(cb_log, {"returned"}) \o NoUuidSeq(partial))

\* C10's case: a finished run whose file holds the rows of two indices that
\* were appended against input order.
C10_Witness ==
    /\ pc = "returned"
    /\ callback = "save"
    /\ \E k, l \in 1..Len(cb_log) :
          /\ k < l
          /\ cb_log[k].index > cb_log[l].index
          /\ cb_log[k].status = "returned" /\ cb_log[k].result # <<>>
          /\ cb_log[l].status = "returned" /\ cb_log[l].result = <<"a", "b">>
    /\ Len(file) >= 4

\* ------------------------------------------------ the checkpoint file (C11-C15)
\* The data rows of the file: everything after the first row.
DataRows == IF file = <<>> THEN <<>> ELSE Tail(file)

\* The rows of the file built by the k-th callback invocation, in file order.
Group(k) == SelectSeq(DataRows, LAMBDA row : row.inv = k)

\* The index a data row was built for (0 for a row no invocation built).
IndexOfRow(row) == IF row.inv \in 1..Len(cb_log) THEN cb_log[row.inv].index ELSE 0

\* The callback invocations that have built rows and not yet left the callback.
InCallback == {k \in 1..Len(cb_log) : cb_log[k].status = "running"}

\* s is a leading part of t.
IsPrefix(s, t) == Len(s) <= Len(t) /\ s = SubSeq(t, 1, Len(s))

\* C11: at every moment at most one callback invocation is inside the
\* checkpoint append, and it holds the file lock; the rows appended for one
\* index are contiguous in the file, never interleaved with another index's.
C11_AppendsSerialized ==
    /\ pc \in {"append", "unlock"} => file_lock
    /\ Cardinality(InCallback) <= 1
    /\ \A a, b, c \in 1..Len(DataRows) :
          (a < b /\ b < c /\ IndexOfRow(DataRows[a]) = IndexOfRow(DataRows[c]))
              => IndexOfRow(DataRows[b]) = IndexOfRow(DataRows[a])

\* C11's case: the file holds two rows for each of two indices, and a third
\* append is not possible at the bounds, so both groups were appended whole.
C11_Witness ==
    /\ Len(DataRows) = 4
    /\ IndexOfRow(DataRows[1]) # 0
    /\ IndexOfRow(DataRows[3]) # 0
    /\ IndexOfRow(DataRows[1]) # IndexOfRow(DataRows[3])
    /\ ~file_lock

\* No append is in progress and the header has been written.
Quiescent == callback = "save" /\ pc # "open_csv" /\ InCallback = {}

\* C12 as stated: whenever the header is written and no append is in
\* progress, the file is the header, once and first, followed by the complete
\* row groups of exactly the indices whose callback returned with a non-empty
\* result.
C12_PartialCheckpoint ==
    Quiescent =>
        /\ HeaderOnceFirst
        /\ NoUuidSeq(DataRows) = RowsExpected(cb_log, {"returned"})

\* C12 as amended: whenever the header is written and no append is in
\* progress, the file is the header, once and first, followed by rows of
\* callback invocations only; the rows of the invocations that returned are
\* their complete groups in the order the callbacks returned, and every other
\* row is one of the leading rows that a failed append had written.
C12_PartialCheckpointOfReturned ==
    Quiescent =>
        /\ HeaderOnceFirst
        /\ \A a \in 1..Len(DataRows) : DataRows[a].inv \in 1..Len(cb_log)
        /\ NoUuidSeq(SelectSeq(DataRows, LAMBDA row : cb_log[row.inv].status = "returned"))
              = RowsExpected(cb_log, {"returned"})
        /\ \A k \in 1..Len(cb_log) :
              cb_log[k].status = "raised" =>
                  /\ Len(Group(k)) < Len(cb_log[k].result)
                  /\ IsPrefix(NoUuidSeq(Group(k)),
                              RowsExpectedFor(cb_log[k].index, cb_log[k].result))

\* C12's case: in the middle of a batch, between two callbacks, the file
\* holds the complete group of an index whose callback has returned.
C12_Witness ==
    /\ Quiescent
    /\ pc = "as_completed"
    /\ yielded # Indices
    /\ \E k \in 1..Len(cb_log) :
          /\ cb_log[k].status = "returned"
          /\ cb_log[k].result = <<"a", "b">>
          /\ Len(Group(k)) = 2

\* C13: a callback invocation with an empty result leaves the file unchanged
\* and does not go on to the lock or to the append.
C13_EmptyResultNoAppend ==
    [][(pc = "callback" /\ cb_arg = <<>>)
           => (file' = file /\ ~file_lock' /\ pc' \notin {"lock", "append", "unlock"})]_vars

\* C13's case: the callback has returned from an invocation with an empty
\* result while the file held data rows.
C13_Witness ==
    /\ callback = "save"
    /\ Len(DataRows) >= 1
    /\ pc = "as_completed"
    /\ Len(cb_log) >= 2
    /\ cb_log[Len(cb_log)].result = <<>>
    /\ cb_log[Len(cb_log)].phase = "try"
    /\ cb_log[Len(cb_log)].status = "returned"

\* C14 as stated: for every index with a non-empty result of k strings the
\* callback appends exactly k rows, one per string in result order, each with
\* the ids of the input at that index.
C14_RowsPerString ==
    \A k \in 1..Len(cb_log) :
        (cb_log[k].status # "running" /\ cb_log[k].result # <<>>)
            => NoUuidSeq(Group(k)) = RowsExpectedFor(cb_log[k].index, cb_log[k].result)

\* C14 as amended: for every index with a non-empty result of k strings whose
\* append completes, the callback appends exactly k rows, one per string in
\* result order, each with the ids of the input at that index; an append that
\* fails leaves a leading part of these rows, and no row ever carries the ids
\* of another index.
C14_RowsPerStringOfCompletedAppend ==
    \A k \in 1..Len(cb_log) :
        /\ cb_log[k].status = "returned"
              => NoUuidSeq(Group(k)) = RowsExpectedFor(cb_log[k].index, cb_log[k].result)
        /\ IsPrefix(NoUuidSeq(Group(k)), RowsExpectedFor(cb_log[k].index, cb_log[k].result))

\* C14's case: two inputs with different ids, and the callback has appended
\* the two rows of a result of two strings.
C14_Witness ==
    /\ N = 2
    /\ metadata[1] # metadata[2]
    /\ \E k \in 1..Len(cb_log) :
          /\ cb_log[k].status = "returned"
          /\ cb_log[k].index = 2
          /\ cb_log[k].result = <<"a", "b">>
          /\ Len(Group(k)) = 2

\* The callback invocations whose append failed.
AppendFailed == {k \in 1..Len(cb_log) : cb_log[k].status = "raised"}

\* C15: when the append of a callback fails, the lock is released (it is held
\* only during an append), the failure is reported for that index once the
\* except clause has run, the batch is not aborted and can always take a
\* further step until it returns, and when it returns every index is resolved
\* and every callback that returned has its rows in the file.
C15_AppendFailureIsolated ==
    /\ file_lock => pc \in {"append", "unlock"}
    /\ \A k \in AppendFailed :
          (pc = "except" /\ k = Len(cb_log))
          \/ \E e \in 1..Len(errors) :
                /\ errors[e].index = cb_log[k].index
                /\ errors[e].fault \in AppendFaults
    /\ AppendFailed # {} =>
          /\ pc # "raised"
          /\ pc # "returned" => ENABLED Next
          /\ pc = "returned" =>
                /\ \A j \in Indices : results[j] # PyNone
                /\ \A l \in 1..Len(cb_log) :
                      cb_log[l].status = "returned"
                          => Len(Group(l)) = Len(cb_log[l].result)

\* C15's case: a batch that returned after the append for one index failed
\* and the rows of another index were appended later.
C15_Witness ==
    /\ pc = "returned"
    /\ \E k \in AppendFailed, l \in 1..Len(cb_log) :
          /\ k < l
          /\ cb_log[l].index # cb_log[k].index
          /\ cb_log[l].status = "returned"
          /\ cb_log[l].result = <<"a", "b">>
          /\ Len(Group(l)) = 2

\* ======================================================================
\* The upload sink: upload_suggested_messages_to_db (db.py, postgresql.py)
\* ======================================================================
\* Largest number of records of an upload, and largest batch_size.
MaxRecords == 3
MaxBatch == 2

\* No generation run is in progress.
GenIdle ==
    /\ mode = "topics"
    /\ callback = None
    /\ batch_size = 1
    /\ inputs = <<>>
    /\ metadata = <<>>
    /\ pc = "idle"
    /\ submitted = 0
    /\ work_queue = <<>>
    /\ fstate = <<>>
    /\ outcome = <<>>
    /\ calls = <<>>
    /\ results = <<>>
    /\ writes = <<>>
    /\ yielded = {}
    /\ index = 0
    /\ phase = "try"
    /\ exc = None
    /\ errors = <<>>
    /\ cb_index = 0
    /\ cb_arg = <<>>
    /\ cb_rows = <<>>
    /\ cb_log = <<>>
    /\ file = <<>>
    /\ file_lock = FALSE
    /\ partial = <<>>
    /\ next_uuid = 0

\* The uuids of the modelled records and table rows.
Uuids == {1, 2}

\* A SuggestedFirstMessage read from the checkpoint, and a row that an earlier
\* upload of another file left in the table under the same uuid.
Record(u) == [uuid |-> u, message |-> "new"]
OldRow(u) == [uuid |-> u, message |-> "old"]

\* The record lists: every list of at most MaxRecords records.
RecordLists ==
    UNION {[1..n -> {Record(u) : u \in Uuids}] : n \in 0..MaxRecords}

UuidsOf(rows) == {row.uuid : row \in rows}
RecordSet(recs) == {recs[k] : k \in 1..Len(recs)}

UploadInit ==
    /\ GenIdle
    /\ CatalogIdle
    /\ LangIdle
    /\ ClientIdle
    /\ CmdIdle
    /\ impl \in {"db", "postgresql"}
    /\ records \in RecordLists
    /\ upload_batch_size \in 1..MaxBatch
    /\ table \in {{}, {OldRow(1)}}
    /\ table0 = table
    /\ batch_start = 0
    /\ batch = <<>>
    /\ total_imported = 0
    /\ upload_errors = <<>>
    /\ attempts = <<>>
    /\ runs = 0
    /\ upc = "start"

\* total_imported = 0; errors = []; db.py returns at once for an empty list,
\* postgresql.py goes on to connect.
UploadBegin ==
    /\ upc = "start"
    /\ runs' = runs + 1
    /\ table0' = table
    /\ total_imported' = 0
    /\ upload_errors' = <<>>
    /\ attempts' = <<>>
    /\ batch_start' = 0
    /\ batch' = <<>>
    /\ upc' = IF impl = "postgresql" THEN "connect"
              ELSE IF records = <<>> THEN "returned" ELSE "loop"
    /\ UNCHANGED <<genvars, catalogvars, langvars, clientvars, cmdvars, impl, records, upload_batch_size, table>>

\* postgresql.py: conn = psycopg2.connect(**db_params); cursor = conn.cursor()
PgConnect ==
    /\ upc = "connect"
    /\ upc' = "loop"
    /\ UNCHANGED <<genvars, catalogvars, langvars, clientvars, cmdvars, impl, records, upload_batch_size, table, table0,
                   batch_start, batch, total_imported, upload_errors, attempts, runs>>

\* postgresql.py: psycopg2.connect raises; except Exception logs and re-raises.
PgConnectFails ==
    /\ upc = "connect"
    /\ upc' = "raised"
    /\ UNCHANGED <<genvars, catalogvars, langvars, clientvars, cmdvars, impl, records, upload_batch_size, table, table0,
                   batch_start, batch, total_imported, upload_errors, attempts, runs>>

\* for i in range(0, len(records), batch_size): batch = records[i:i + batch_size]
NextBatch ==
    /\ upc = "loop"
    /\ batch_start < Len(records)
    /\ batch' = SubSeq(records, batch_start + 1,
                       Min(batch_start + upload_batch_size, Len(records)))
    /\ upc' = IF impl = "db" THEN "get_db" ELSE "insert"
    /\ UNCHANGED <<genvars, catalogvars, langvars, clientvars, cmdvars, impl, records, upload_batch_size, table, table0,
                   batch_start, total_imported, upload_errors, attempts, runs>>

\* The loop is exhausted: return total_imported, errors
UploadReturn ==
    /\ upc = "loop"
    /\ batch_start >= Len(records)
    /\ upc' = "returned"
    /\ UNCHANGED <<genvars, catalogvars, langvars, clientvars, cmdvars, impl, records, upload_batch_size, table, table0,
                   batch_start, batch, total_imported, upload_errors, attempts, runs>>

\* The entry of attempts for the current batch.
Attempt(ok) == [start |-> batch_start, size |-> Len(batch), ok |-> ok]

\* The error string appended for the current batch.
ErrorString(kind) == [batch |-> (batch_start \div upload_batch_size) + 1, kind |-> kind]

\* db.py: db = remote_resource_access.get_db()
GetDb ==
    /\ upc = "get_db"
    /\ upc' = "insert"
    /\ UNCHANGED <<genvars, catalogvars, langvars, clientvars, cmdvars, impl, records, upload_batch_size, table, table0,
                   batch_start, batch, total_imported, upload_errors, attempts, runs>>

\* db.py: get_db raises; errors.append(...); continue
GetDbFails ==
    /\ upc = "get_db"
    /\ upload_errors' = Append(upload_errors, ErrorString("connection"))
    /\ attempts' = Append(attempts, Attempt(FALSE))
    /\ batch_start' = batch_start + upload_batch_size
    /\ upc' = "loop"
    /\ UNCHANGED <<genvars, catalogvars, langvars, clientvars, cmdvars, impl, records, upload_batch_size, table, table0,
                   batch, total_imported, runs>>

\* A variant of InsertRow for an INSERT without the ON CONFLICT clause into a
\* table without the uniqueness constraint.
InsertRow_noConflictClause(tbl, row) == tbl \cup {row}

\* INSERT ... VALUES (row) ON CONFLICT (uuid) DO NOTHING
InsertRow(tbl, row) ==
    IF \E present \in tbl : present.uuid = row.uuid THEN tbl ELSE tbl \cup {row}

\* The insert of the rows of a batch, one after the other.
RECURSIVE InsertIgnore(_, _)
InsertIgnore(tbl, rows) ==
    IF rows = <<>> THEN tbl
    ELSE InsertIgnore(InsertRow(tbl, Head(rows)), Tail(rows))

\* What is added to total_imported after a batch: len(batch) in db.py,
\* len(inserted_rows), the rows that RETURNING uuid reports, in postgresql.py.
ImportedCount(tbl, rows) ==
    IF impl = "db" THEN Len(rows)
    ELSE Cardinality(InsertIgnore(tbl, rows)) - Cardinality(tbl)

\* cur.executemany(...) / execute_values(...) succeeds (postgresql.py commits).
InsertOk ==
    /\ upc = "insert"
    /\ table' = InsertIgnore(table, batch)
    /\ total_imported' = total_imported + ImportedCount(table, batch)
    /\ attempts' = Append(attempts, Attempt(TRUE))
    /\ batch_start' = batch_start + upload_batch_size
    /\ upc' = "loop"
    /\ UNCHANGED <<genvars, catalogvars, langvars, clientvars, cmdvars, impl, records, upload_batch_size, table0,
                   batch, upload_errors, runs>>

\* A variant of InsertFails that leaves the loop at the first batch that fails.
InsertFails_break(k) ==
    /\ upc = "insert"
    /\ k \in 0..(Len(batch) - 1)
    /\ impl = "postgresql" => k = 0
    /\ table' = InsertIgnore(table, SubSeq(batch, 1, k))
    /\ upload_errors' = Append(upload_errors, ErrorString("insert"))
    /\ attempts' = Append(attempts, Attempt(FALSE))
    /\ batch_start' = batch_start + upload_batch_size
    /\ upc' = "returned"
    /\ UNCHANGED <<genvars, catalogvars, langvars, clientvars, cmdvars, impl, records, upload_batch_size, table0,
                   batch, total_imported, runs>>

\* The insert raises. db.py: executemany has executed the statements of the
\* k rows before the failing one, nothing is rolled back; errors.append(...);
\* continue. postgresql.py: psycopg2.Error; errors.append(...); conn.rollback().
InsertFails(k) ==
    /\ upc = "insert"
    /\ k \in 0..(Len(batch) - 1)
    /\ impl = "postgresql" => k = 0
    /\ table' = InsertIgnore(table, SubSeq(batch, 1, k))
    /\ upload_errors' = Append(upload_errors, ErrorString("insert"))
    /\ attempts' = Append(attempts, Attempt(FALSE))
    /\ batch_start' = batch_start + upload_batch_size
    /\ upc' = "loop"
    /\ UNCHANGED <<genvars, catalogvars, langvars, clientvars, cmdvars, impl, records, upload_batch_size, table0,
                   batch, total_imported, runs>>

\* upload_to_db is run once more on the same checkpoint file.
Rerun ==
    /\ upc = "returned"
    /\ runs = 1
    /\ upc' = "start"
    /\ UNCHANGED <<genvars, catalogvars, langvars, clientvars, cmdvars, impl, records, upload_batch_size, table, table0,
                   batch_start, batch, total_imported, upload_errors, attempts, runs>>

UploadNext ==
    \/ UploadBegin
    \/ PgConnect
    \/ PgConnectFails
    \/ NextBatch
    \/ UploadReturn
    \/ GetDb
    \/ GetDbFails
    \/ InsertOk
    \/ \E k \in 0..(Len(batch) - 1) : InsertFails(k)
    \/ Rerun

UploadSpec == UploadInit /\ [][UploadNext]_vars

\* ----------------------------------------------------- the upload (C16-C18)
\* The batches of the current upload whose insertion failed.
FailedAttempts == {a \in 1..Len(attempts) : ~attempts[a].ok}

\* The number of batches of the record list.
BatchCount == (Len(records) + upload_batch_size - 1) \div upload_batch_size

\* C16: an upload leaves every row that was in the table unchanged and adds
\* only records whose uuid was not in the table; the table never holds two
\* rows with one uuid; and an upload in which no batch failed for another
\* reason has added the records with new uuids and produced no error.
C16_InsertOrIgnore ==
    /\ \A r1, r2 \in table : r1.uuid = r2.uuid => r1 = r2
    /\ table0 \subseteq table
    /\ \A row \in table \ table0 :
          row \in RecordSet(records) /\ row.uuid \notin UuidsOf(table0)
    /\ (upc = "returned" /\ FailedAttempts = {}) =>
          /\ UuidsOf(table) = UuidsOf(table0) \cup UuidsOf(RecordSet(records))
          /\ upload_errors = <<>>

\* C16's case: an upload in two batches has returned; one uuid of its
\* records was in the table before, under another message, and one was new.
C16_Witness ==
    /\ upc = "returned"
    /\ FailedAttempts = {}
    /\ Len(attempts) >= 2
    /\ OldRow(1) \in table0
    /\ Record(1) \in RecordSet(records)
    /\ Record(2) \in RecordSet(records)
    /\ Record(2) \in table \ table0

\* C17: the second upload of a record list whose uuids are all in the table,
\* with no batch failing, reports 0 imported rows and no error.
C17_RerunImportsNothing ==
    (/\ upc = "returned"
     /\ runs = 2
     /\ UuidsOf(RecordSet(records)) \subseteq UuidsOf(table0)
     /\ FailedAttempts = {})
        => (total_imported = 0 /\ upload_errors = <<>>)

\* C18: an upload never ends by raising; it has recorded one error string
\* per batch that failed; and when it returns it has handled every batch.
C18_BatchFailureIsolated ==
    /\ upc # "raised"
    /\ Len(upload_errors) = Cardinality(FailedAttempts)
    /\ upc = "returned" => Len(attempts) = BatchCount

\* The batches handled so far are the leading slices of the record list:
\* consecutive, in input order, each of at most upload_batch_size records.
ConsecutiveBatches ==
    \A a \in 1..Len(attempts) :
        /\ attempts[a].start = (a - 1) * upload_batch_size
        /\ attempts[a].size >= 1
        /\ attempts[a].size <= upload_batch_size
        /\ attempts[a].start + attempts[a].size <= Len(records)
        /\ a < Len(attempts) => attempts[a].size = upload_batch_size

\* The batches that took record k.
BatchesOf(k) ==
    {a \in 1..Len(attempts) :
        attempts[a].start < k /\ k <= attempts[a].start + attempts[a].size}

\* Batch a was handed to the database: its connection was obtained.
Submitted(a) ==
    ~\E e \in 1..Len(upload_errors) :
        upload_errors[e].batch = a /\ upload_errors[e].kind = "connection"

\* C30 as stated: the records are taken in consecutive batches of at most
\* batch_size records in input order, and when the upload is over every
\* record has been submitted to the database in exactly one batch, whatever
\* failed before.
C30_EveryRecordSubmittedOnce ==
    /\ ConsecutiveBatches
    /\ upc \in {"returned", "raised"} =>
          \A k \in 1..Len(records) :
              /\ Cardinality(BatchesOf(k)) = 1
              /\ \A a \in BatchesOf(k) : Submitted(a)

\* C30, amended: the records are taken in consecutive batches of at most
\* batch_size records in input order and no record is in two batches; a
\* failed batch does not keep the next one from being taken, so an upload
\* that returns has taken every record in exactly one batch; the batch being
\* handled is the next slice; and a batch is submitted to the database
\* unless its connection could not be obtained, which happens with db.py
\* only: the records of a batch that succeeded are in the table.
C30_EveryRecordInOneBatch ==
    /\ ConsecutiveBatches
    /\ \A k \in 1..Len(records) : Cardinality(BatchesOf(k)) <= 1
    /\ upc = "returned" =>
          \A k \in 1..Len(records) : Cardinality(BatchesOf(k)) = 1
    /\ upc \in {"get_db", "insert"} =>
          /\ batch_start = Len(attempts) * upload_batch_size
          /\ batch = SubSeq(records, batch_start + 1,
                            Min(batch_start + upload_batch_size, Len(records)))
    /\ \A a \in 1..Len(attempts) :
          /\ ~Submitted(a) => (impl = "db" /\ ~attempts[a].ok)
          /\ attempts[a].ok =>
                \A k \in 1..Len(records) :
                    a \in BatchesOf(k) => records[k].uuid \in UuidsOf(table)

\* C30's case: the first batch failed without reaching the database, the
\* second was submitted and inserted, and the upload returned.
C30_Witness ==
    /\ upc = "returned"
    /\ Len(attempts) >= 2
    /\ ~attempts[1].ok
    /\ ~Submitted(1)
    /\ attempts[2].ok
    /\ Submitted(2)
    /\ Len(records) = 3

\* ======================================================================
\* The reference catalog: create_combinations, get_names_for_combination
\* ======================================================================
\* Largest number of rows of a catalog table.
MaxRows == 3

\* The entities a catalog table can hold.
CountryPool == { [id |-> 1, english_name |-> "Germany"],
                 [id |-> 2, english_name |-> "France"] }
GradePool == { [id |-> 5, country_id |-> 1, long_name |-> "Grade 5"],
               [id |-> 6, country_id |-> 1, long_name |-> "Grade 6"],
               [id |-> 7, country_id |-> 2, long_name |-> "Grade 7"] }
SubjectPool == { [id |-> 10, country_id |-> 1, long_name |-> "Biology"],
                 [id |-> 11, country_id |-> 1, long_name |-> "Physics"],
                 [id |-> 12, country_id |-> 2, long_name |-> "History"] }

\* The tables over a pool: at most MaxRows rows in any order, ids unique.
Tables(entities) ==
    {tbl \in UNION {[1..n -> entities] : n \in 0..MaxRows} :
        \A a, b \in 1..Len(tbl) : a # b => tbl[a].id # tbl[b].id}

CatalogInit ==
    /\ GenIdle
    /\ SinkIdle
    /\ LangIdle
    /\ ClientIdle
    /\ CmdIdle
    /\ countries \in Tables(CountryPool)
    /\ subjects \in Tables(SubjectPool)
    /\ grades \in Tables(GradePool)
    /\ combos = <<>>
    /\ returned_names = <<>>
    /\ query = <<>>
    /\ cat_pc = "loaded"

\* A variant of country_rows without the country_id test.
country_rows_unfiltered(tbl, cid) == tbl

\* [s for s in subjects if s.country_id == country.id], and the same for grades.
country_rows(tbl, cid) == SelectSeq(tbl, LAMBDA entity : entity.country_id = cid)

\* for grade in country_grades: for subject in country_subjects:
\*     combinations.append(Combination(...))
combinations_of(country) ==
    LET country_subjects == country_rows(subjects, country.id)
        country_grades == country_rows(grades, country.id)
    IN [k \in 1..(Len(country_grades) * Len(country_subjects)) |->
           [country_id |-> country.id,
            grade_id |-> country_grades[((k - 1) \div Len(country_subjects)) + 1].id,
            subject_id |-> country_subjects[((k - 1) % Len(country_subjects)) + 1].id]]

\* for country in countries: ... the file combos_{country.id}.csv is written.
create_combinations ==
    [cid \in {countries[k].id : k \in 1..Len(countries)} |->
        combinations_of(countries[FirstWithId(countries, cid)])]

CreateCombinations ==
    /\ cat_pc = "loaded"
    /\ combos' = create_combinations
    /\ cat_pc' = "combined"
    /\ UNCHANGED <<genvars, sinkvars, langvars, clientvars, cmdvars, countries, subjects, grades, returned_names, query>>

\* A call get_names_for_combination(cid, gid, sid).
GetNames(cid, gid, sid) ==
    /\ cat_pc \in {"loaded", "combined"}
    /\ query' = <<cid, gid, sid>>
    /\ returned_names' = get_names_for_combination(cid, gid, sid)
    /\ UNCHANGED <<genvars, sinkvars, langvars, clientvars, cmdvars, countries, subjects, grades, combos, cat_pc>>

\* The ids asked for: those of the pools, present in the tables or not.
IdsOf(entities) == {entity.id : entity \in entities}

CatalogNext ==
    \/ CreateCombinations
    \/ \E cid \in IdsOf(CountryPool), gid \in IdsOf(GradePool), sid \in IdsOf(SubjectPool) :
          GetNames(cid, gid, sid)

CatalogSpec == CatalogInit /\ [][CatalogNext]_vars

\* ---------------------------------------------------- the catalog (C19, C20)
\* The rows of a table as a set.
RowSet(tbl) == {tbl[k] : k \in 1..Len(tbl)}

\* C19: for every country, the combination file holds G*S rows for the G
\* grades and S subjects with that country's id, each (grade, subject) pair of
\* them once and no other pair, and every row carries that country's id.
C19_CartesianProduct ==
    cat_pc = "combined" =>
        /\ DOMAIN combos = IdsOf(RowSet(countries))
        /\ \A country \in RowSet(countries) :
              LET G == {grade \in RowSet(grades) : grade.country_id = country.id}
                  S == {subject \in RowSet(subjects) : subject.country_id = country.id}
                  rows == combos[country.id]
              IN /\ Len(rows) = Cardinality(G) * Cardinality(S)
                 /\ {<<rows[k].grade_id, rows[k].subject_id>> : k \in 1..Len(rows)}
                       = {<<grade.id, subject.id>> : grade \in G, subject \in S}
                 /\ \A a, b \in 1..Len(rows) : a # b => rows[a] # rows[b]
                 /\ \A k \in 1..Len(rows) : rows[k].country_id = country.id

\* C19's case: Germany has two grades and two subjects and gets four
\* combinations, while the tables also hold a grade or a subject of France.
C19_Witness ==
    /\ cat_pc = "combined"
    /\ 1 \in DOMAIN combos
    /\ Len(combos[1]) = 4
    /\ \E grade \in RowSet(grades) : grade.country_id = 2
    /\ 2 \in DOMAIN combos

\* The name get_names_for_combination must return for an id: that of the
\* entity of the table with this id, "Unknown" when there is none.
IsNameOf(name, tbl, id, english) ==
    \/ \E entity \in RowSet(tbl) :
          /\ entity.id = id
          /\ name = IF english THEN entity.english_name ELSE entity.long_name
    \/ /\ \A entity \in RowSet(tbl) : entity.id # id
       /\ name = "Unknown"

\* C20: every call returns a triple (country_name, grade_name, subject_name),
\* each component the name of the entity with the id asked for, or "Unknown"
\* when the table has no entity with this id.
C20_NamesOrUnknown ==
    query # <<>> =>
        /\ Len(returned_names) = 3
        /\ IsNameOf(returned_names[1], countries, query[1], TRUE)
        /\ IsNameOf(returned_names[2], grades, query[2], FALSE)
        /\ IsNameOf(returned_names[3], subjects, query[3], FALSE)

\* C20's case: a call whose country and subject are in the tables and whose
\* grade is not.
C20_Witness ==
    /\ query = <<1, 7, 10>>
    /\ returned_names = <<"Germany", "Unknown", "Biology">>

\* ----------------------------------------------------------------------
\* Claims about the order and the thread of the callback invocations
\* ----------------------------------------------------------------------
\* C24: the row groups are in the file in the order in which the callback
\* was invoked: when the callback for one index was invoked before the
\* callback for another and both had a non-empty result, every row of the
\* first is before every row of the second, whatever the two indices are.
C24_FileOrderIsCallbackOrder ==
    pc # "open_csv" =>
        /\ \A a \in 1..Len(DataRows) : DataRows[a].inv \in 1..Len(cb_log)
        /\ \A a, b \in 1..Len(DataRows) :
              a < b => DataRows[a].inv <= DataRows[b].inv

\* C24's case: the callback for index 2 was invoked first, and its rows are
\* in the file before the rows of index 1.
C24_Witness ==
    /\ Len(DataRows) >= 2
    /\ IndexOfRow(DataRows[1]) = 2
    /\ IndexOfRow(DataRows[Len(DataRows)]) = 1
    /\ DataRows[1].inv < DataRows[Len(DataRows)].inv

\* A step of a worker thread of the executor.
WorkerStep == StartCall \/ CallCompletes

\* C25: every callback invocation is made by the orchestrating thread and
\* never by a worker; an invocation has ended before the next one begins,
\* lock or no lock; and the lock is free whenever the callback asks for it,
\* so the callback never waits.
C25_CallbacksOnOrchestratingThread ==
    /\ [](pc = "lock" => ~file_lock /\ ENABLED AcquireLock)
    /\ [](\A k \in 1..(Len(cb_log) - 1) : cb_log[k].status # "running")
    /\ [][(cbstate' # cbstate \/ file_lock' # file_lock)
             => (Orchestrator /\ ~WorkerStep /\ pool' = pool)]_vars

\* C25's case: the callback is about to take the lock while a generation
\* call is still running on a worker thread.
C25_Witness ==
    /\ pc = "lock"
    /\ \E j \in Indices : fstate[j] = "running"

\* C26: the result slot depends on the outcome of the generation call alone:
\* when the batch function returns, the slot of an index whose callback
\* raised still holds the list the callback was invoked with.
C26_SlotIndependentOfCallback ==
    pc = "returned" =>
        \A k \in 1..Len(cb_log) :
            cb_log[k].status = "raised"
                => results[cb_log[k].index] = PyList(cb_log[k].result)

\* ======================================================================
\* The commands of main.py up to the start of the batch or of the upload
\* ======================================================================
\* Largest number of data rows of a file passed to upload_to_db.
MaxFileRows == 2

\* A variant of get_country_id_by_name that falls back to the first country
\* of the table for a name that is not there.
get_country_id_by_name_fallback(name) ==
    IF FirstWithName(countries, name) = 0 THEN countries[1].id
    ELSE countries[FirstWithName(countries, name)].id

\* The id get_country_id_by_name returns; 0 stands for raise ValueError.
get_country_id_by_name(name) ==
    IF FirstWithName(countries, name) = 0 THEN 0
    ELSE countries[FirstWithName(countries, name)].id

\* if not os.path.exists(filename): return combinations (the empty list)
load_combinations_for_country(cid) ==
    IF cid \in DOMAIN combos THEN combos[cid] ELSE <<>>

\* language_lookup = {lang.id: lang.english_name for lang in languages}: the
\* ids of the table, and for an id the name of the last row that has it.
LanguageIds == {language_table[k].id : k \in 1..Len(language_table)}
language_lookup(id) ==
    language_table[CHOOSE k \in 1..Len(language_table) :
                      /\ language_table[k].id = id
                      /\ \A j \in (k + 1)..Len(language_table) : language_table[j].id # id
                  ].english_name

\* get_languages_for_country: the unpacking of the tuple into language_1_id,
\* language_2_id raises ValueError unless the tuple has two elements.
get_languages_for_country(cid) ==
    IF cid \notin DOMAIN popular_language_table THEN Returned(<<>>)
    ELSE IF Len(popular_language_table[cid]) # 2 THEN Raised("ValueError")
    ELSE LET language_1_id == popular_language_table[cid][1]
             language_2_id == popular_language_table[cid][2]
         IN Returned((IF language_1_id \in LanguageIds
                      THEN <<language_lookup(language_1_id)>> ELSE <<>>)
                     \o (IF language_2_id \in LanguageIds
                         THEN <<language_lookup(language_2_id)>> ELSE <<>>))

\* The cells of a row of the file passed to upload_to_db as csv.DictReader
\* gives them: a string, None for a field that a short row lacks, NoKey for
\* a column that the header lacks.
NoKey == "NoKey"
ValidDate == "2025-01-01T00:00:00Z"
CsvRow(uuid, created_on, message, language_id, grade_id) ==
    [uuid |-> uuid, created_on |-> created_on, message |-> message,
     language_id |-> language_id, country_id |-> "1", grade_id |-> grade_id,
     subject_id |-> "10"]

RowPool ==
    { CsvRow("u1", ValidDate, "m", "2", "5"),
      CsvRow("u2", ValidDate, "m", "", "x"),
      CsvRow("not-a-uuid", ValidDate, "m", "2", "5"),
      CsvRow("u1", "yesterday", "m", "2", "5"),
      CsvRow("u2", ValidDate, NoKey, "2", "5"),
      CsvRow("u2", ValidDate, None, None, None),
      CsvRow(None, None, None, None, None) }

UploadFiles == UNION {[1..n -> RowPool] : n \in 0..MaxFileRows}

\* UUID(row["uuid"]): the uuid, 0 when the constructor raises.
ParseUuid(cell) == IF cell = "u1" THEN 1 ELSE IF cell = "u2" THEN 2 ELSE 0

\* datetime.fromisoformat after 'Z' is replaced by '+00:00'.
ParseDate(cell) == IF cell = ValidDate THEN "2025-01-01T00:00:00+00:00" ELSE None

\* safe_int_conversion: the integer, 0 (null) for None, blank or no integer.
Null == 0
safe_int_conversion(cell) ==
    CASE cell = "1" -> 1
      [] cell = "2" -> 2
      [] cell = "5" -> 5
      [] cell = "10" -> 10
      [] OTHER -> Null

\* A variant of RowRaises for id fields converted with int(row[...]).
RowRaises_strictIds(row) ==
    \/ ParseUuid(row.uuid) = 0
    \/ ParseDate(row.created_on) = None
    \/ row.message = NoKey
    \/ row.language_id \notin {"1", "2", "5", "10"}
    \/ row.grade_id \notin {"1", "2", "5", "10"}

\* The try block for one row raises (KeyError, ValueError or another
\* exception) and the row is skipped.
RowRaises(row) ==
    \/ row.uuid = NoKey \/ ParseUuid(row.uuid) = 0
    \/ row.created_on = NoKey \/ ParseDate(row.created_on) = None
    \/ row.message = NoKey

\* The dictionary record built for a row.
RecordOf(row) ==
    [uuid |-> ParseUuid(row.uuid), created_on |-> ParseDate(row.created_on),
     message |-> row.message,
     language_id |-> safe_int_conversion(row.language_id),
     country_id |-> safe_int_conversion(row.country_id),
     grade_id |-> safe_int_conversion(row.grade_id),
     subject_id |-> safe_int_conversion(row.subject_id)]

\* SuggestedFirstMessage(**record) raises ValidationError: message is a str.
Invalid(record) == record.message = None

CommandInit ==
    /\ SinkIdle
    /\ ClientIdle
    /\ countries = CountryTable
    /\ subjects = SubjectTable
    /\ grades = GradeTable
    /\ returned_names = <<>>
    /\ query = <<>>
    /\ cat_pc = "idle"
    /\ language_table = LanguageTable
    /\ returned_languages = NoQuery
    /\ mode \in {"topics", "prompts", "upload"}
    /\ requested_country \in
          IF mode = "upload" THEN {"Germany"} ELSE {"Germany", "GERMANY", "Atlantis"}
    /\ combos \in
          IF mode = "topics"
          THEN {<<>>} \cup {[cid \in {1} |-> SubSeq(AllCombos, 1, n)] :
                               n \in 0..Min(MaxN, Len(AllCombos))}
          ELSE {<<>>}
    /\ popular_language_table \in
          IF mode = "prompts"
          THEN {<<>>} \cup {[cid \in {1} |-> ids] : ids \in {<<2, 1>>, <<2, 3>>, <<2>>}}
          ELSE {<<>>}
    /\ topics_file \in
          IF mode = "prompts"
          THEN {PyNone} \cup {PyList(SubSeq(AllTopicRows, 1, t)) :
                                 t \in 0..Min(MaxN, Len(AllTopicRows))}
          ELSE {PyNone}
    /\ upload_file \in
          IF mode = "upload" THEN {PyNone} \cup {PyList(rows) : rows \in UploadFiles}
          ELSE {PyNone}
    /\ file \in IF mode = "upload" THEN {<<>>} ELSE {<<>>, StaleFile}
    /\ callback = "save"
    /\ batch_size \in 1..MaxW
    /\ run_languages = <<>>
    /\ topics_read = <<>>
    /\ read_pos = 0
    /\ parsed = <<>>
    /\ inputs = <<>>
    /\ metadata = <<>>
    /\ pc = "start"
    /\ submitted = 0
    /\ work_queue = <<>>
    /\ fstate = <<>>
    /\ outcome = <<>>
    /\ calls = <<>>
    /\ results = <<>>
    /\ writes = <<>>
    /\ yielded = {}
    /\ index = 0
    /\ phase = "try"
    /\ exc = None
    /\ errors = <<>>
    /\ cb_index = 0
    /\ cb_arg = <<>>
    /\ cb_rows = <<>>
    /\ cb_log = <<>>
    /\ file_lock = FALSE
    /\ partial = <<>>
    /\ next_uuid = 0

\* The command ends with the exception (upload_to_db: after printing it).
Fail(fault) ==
    /\ exc' = fault
    /\ pc' = "failed"

\* country_id = get_country_id_by_name(country)
LookupCountry ==
    /\ pc = "start"
    /\ mode \in {"topics", "prompts"}
    /\ IF get_country_id_by_name(requested_country) = 0
       THEN Fail("ValueError")
       ELSE pc' = "load" /\ exc' = exc
    /\ UNCHANGED <<catalogvars, langvars, sinkvars, clientvars, cmdvars, config, pool,
                   results, writes, yielded, index, phase, errors, cbstate, disk>>

\* The executor-side state for a list of n inputs, before any is submitted.
FreshPool(n) ==
    /\ fstate' = [i \in 1..n |-> "new"]
    /\ outcome' = [i \in 1..n |-> Pending]
    /\ calls' = [i \in 1..n |-> 0]
    /\ writes' = [i \in 1..n |-> 0]

\* generate_all_topics: combinations = load_combinations_for_country(...),
\* then the loop that builds batch_inputs and combination_metadata.
PrepareTopics ==
    /\ pc = "load"
    /\ mode = "topics"
    /\ LET combinations ==
               load_combinations_for_country(get_country_id_by_name(requested_country))
       IN /\ inputs' = TopicInputs(combinations)
          /\ metadata' = combination_metadata(combinations)
          /\ FreshPool(Len(combinations))
    /\ pc' = "open_csv"
    /\ UNCHANGED <<catalogvars, langvars, sinkvars, clientvars, cmdvars, mode, callback,
                   batch_size, submitted, work_queue, results, yielded, index, phase,
                   exc, errors, cbstate, disk>>

\* generate_all_prompts: languages = get_languages_for_country(country_id)
GetLanguages ==
    /\ pc = "load"
    /\ mode = "prompts"
    /\ LET got == get_languages_for_country(get_country_id_by_name(requested_country))
       IN IF got.kind = "raised"
          THEN Fail(got.fault) /\ run_languages' = run_languages
          ELSE /\ run_languages' = got.value
               /\ pc' = "read_topics"
               /\ exc' = exc
    /\ UNCHANGED <<catalogvars, langvars, sinkvars, clientvars, config, pool, results,
                   writes, yielded, index, phase, errors, cbstate, disk,
                   requested_country, topics_file, topics_read, upload_file, read_pos,
                   parsed>>

\* with open(f"./data/topics_{country_id}.csv", "r") ...: topics_data = list(reader)
ReadTopics ==
    /\ pc = "read_topics"
    /\ IF topics_file.none
       THEN Fail("FileNotFoundError") /\ topics_read' = topics_read
       ELSE /\ topics_read' = topics_file.list
            /\ pc' = "build"
            /\ exc' = exc
    /\ UNCHANGED <<catalogvars, langvars, sinkvars, clientvars, config, pool, results,
                   writes, yielded, index, phase, errors, cbstate, disk,
                   requested_country, run_languages, topics_file, upload_file, read_pos,
                   parsed>>

\* generate_all_prompts: the loops that build batch_inputs and input_metadata;
\* get_language_id_by_name raises for a name that is not in the table.
PreparePrompts ==
    /\ pc = "build"
    /\ IF /\ topics_read # <<>>
          /\ \E l \in 1..Len(run_languages) : get_language_id_by_name(run_languages[l]) = 0
       THEN /\ Fail("ValueError")
            /\ UNCHANGED <<inputs, metadata, fstate, outcome, calls, writes>>
       ELSE /\ inputs' = PromptInputs(topics_read, run_languages)
            /\ metadata' = input_metadata(topics_read, run_languages)
            /\ FreshPool(Len(topics_read) * Len(run_languages))
            /\ pc' = "open_csv"
            /\ exc' = exc
    /\ UNCHANGED <<catalogvars, langvars, sinkvars, clientvars, cmdvars, mode, callback,
                   batch_size, submitted, work_queue, results, yielded, index, phase,
                   errors, cbstate, disk>>

\* upload_to_db: with open(file_path, "r", encoding="utf-8") as f
OpenUploadFile ==
    /\ pc = "start"
    /\ mode = "upload"
    /\ IF upload_file.none THEN Fail("FileNotFoundError")
       ELSE pc' = "read" /\ exc' = exc
    /\ UNCHANGED <<catalogvars, langvars, sinkvars, clientvars, cmdvars, config, pool,
                   results, writes, yielded, index, phase, errors, cbstate, disk>>

\* One iteration of for row_num, row in enumerate(reader, 1).
ReadRow ==
    /\ pc = "read"
    /\ read_pos < Len(upload_file.list)
    /\ read_pos' = read_pos + 1
    /\ LET row == upload_file.list[read_pos + 1]
       IN parsed' = IF RowRaises(row) THEN parsed ELSE Append(parsed, RecordOf(row))
    /\ UNCHANGED <<genvars, catalogvars, langvars, sinkvars, clientvars,
                   requested_country, run_languages, topics_file, topics_read,
                   upload_file>>

\* total_imported, errors = upload_suggested_messages_to_db_from_dicts(
\* records, batch_size): the call, made with the list the loop has built.
CallUpload ==
    /\ pc = "read"
    /\ read_pos = Len(upload_file.list)
    /\ records' = parsed
    /\ upload_batch_size' = batch_size
    /\ pc' = "convert"
    /\ UNCHANGED <<catalogvars, langvars, clientvars, cmdvars, config, pool, collector,
                   cbstate, disk, impl, table, table0, batch_start, batch,
                   total_imported, upload_errors, attempts, runs, upc>>

\* db.py: message_objects = [SuggestedFirstMessage(**record) for record in
\* records]; a ValidationError leaves the function and is caught by the
\* except Exception of upload_to_db. Otherwise the upload starts.
ConvertRecords ==
    /\ pc = "convert"
    /\ IF \E k \in 1..Len(records) : Invalid(records[k])
       THEN Fail("ValidationError") /\ upc' = upc
       ELSE /\ pc' = "upload"
            /\ exc' = exc
            /\ upc' = "start"
    /\ UNCHANGED <<catalogvars, langvars, clientvars, cmdvars, config, pool,
                   results, writes, yielded, index, phase, errors, cbstate, disk,
                   impl, records, upload_batch_size, table, table0, batch_start, batch,
                   total_imported, upload_errors, attempts, runs>>

CommandNext ==
    \/ LookupCountry
    \/ PrepareTopics
    \/ GetLanguages
    \/ ReadTopics
    \/ PreparePrompts
    \/ OpenCsv
    \/ Submit
    \/ StartCall
    \/ OpenUploadFile
    \/ ReadRow
    \/ CallUpload
    \/ ConvertRecords

CommandSpec == CommandInit /\ [][CommandNext]_vars

\* ----------------------------------------------------------------------
\* Claims about the commands
\* ----------------------------------------------------------------------
\* No country of the table has the requested name (compared in lower case).
CountryAbsent ==
    \A k \in 1..Len(countries) :
        Lower(countries[k].english_name) # Lower(requested_country)

\* A language name the prompts run needs is not in the language table.
LanguageAbsent ==
    /\ mode = "prompts"
    /\ topics_read # <<>>
    /\ \E l \in 1..Len(run_languages) :
          \A k \in 1..Len(language_table) :
              Lower(language_table[k].english_name) # Lower(run_languages[l])

\* The checkpoint file is as it was before the command: absent, or with the
\* rows of an earlier run.
CheckpointUntouched == file \in {<<>>, StaleFile}

\* No generation call has been started.
NoGenerationCall == \A i \in DOMAIN calls : calls[i] = 0

\* Nothing has been handed to the upload.
NothingSentToDatabase == upc = "idle" /\ records = <<>> /\ attempts = <<>>

InputFileMissing ==
    \/ mode = "topics" /\ ~CountryAbsent
         /\ get_country_id_by_name(requested_country) \notin DOMAIN combos
    \/ mode = "prompts" /\ topics_file.none
    \/ mode = "upload" /\ upload_file.none

\* C22: when the required input file is missing, the command fails outright
\* before any work: no checkpoint file is created or truncated, no
\* generation call is made and no row is sent to the database.
C22_MissingInputFailsBeforeWork ==
    InputFileMissing =>
        /\ pc \in {"start", "load", "read_topics", "failed"}
        /\ CheckpointUntouched
        /\ NoGenerationCall
        /\ NothingSentToDatabase

\* The input list and the metadata list of the prompts run have been built.
PromptInputsBuilt == mode = "prompts" /\ pc \in {"open_csv", "submit"}

Acceptable(row) ==
    /\ row.uuid \in {"u1", "u2"}
    /\ row.created_on = ValidDate
    /\ row.message # NoKey

\* The integer an id cell stands for; null for an empty cell, a cell that is
\* no integer and a cell that is not there.
IdOrNull(cell) ==
    IF cell \in {"1", "2", "5", "10"}
    THEN CHOOSE n \in {1, 2, 5, 10} : safe_int_conversion(cell) = n
    ELSE 0

\* The records that the acceptable rows among rows stand for, in file order.
RecordsOfAcceptable(rows) ==
    LET kept == SelectSeq(rows, Acceptable)
    IN [k \in 1..Len(kept) |->
           [uuid |-> IF kept[k].uuid = "u1" THEN 1 ELSE 2,
            created_on |-> "2025-01-01T00:00:00+00:00",
            message |-> kept[k].message,
            language_id |-> IdOrNull(kept[k].language_id),
            country_id |-> IdOrNull(kept[k].country_id),
            grade_id |-> IdOrNull(kept[k].grade_id),
            subject_id |-> IdOrNull(kept[k].subject_id)]]

LanguageTables ==
    {<<>>} \cup {<<LanguageTable[k]>> : k \in 1..2}
    \cup {LanguageTable, <<LanguageTable[2], LanguageTable[1]>>}

\* int(language_2_id_str) for the cells that occur.
ParseLanguageId(cell) == CASE cell = "1" -> 1 [] cell = "2" -> 2 [] cell = "3" -> 3

\* load_popular_languages: the tuple stored for a row of popular_language.csv,
\* of one element when the cell language_2_id is empty.
popular_tuple(language_1_id, language_2_id_str) ==
    IF language_2_id_str # "" THEN <<language_1_id, ParseLanguageId(language_2_id_str)>>
    ELSE <<language_1_id>>

PopularTuples ==
    {popular_tuple(l1, l2) : l1 \in 1..3, l2 \in {"", "1", "2", "3"}}

\* The dictionaries load_popular_languages returns for the countries 1 and 2.
PopularLanguages ==
    UNION {[cs -> PopularTuples] : cs \in SUBSET {1, 2}}

LanguageInit ==
    /\ GenIdle
    /\ CatalogIdle
    /\ SinkIdle
    /\ ClientIdle
    /\ CmdIdle
    /\ language_table \in LanguageTables
    /\ popular_language_table \in PopularLanguages
    /\ returned_languages = NoQuery

\* A call get_languages_for_country(cid).
LanguagesForCountry(cid) ==
    /\ returned_languages = NoQuery
    /\ returned_languages' =
          [country_id |-> cid, result |-> get_languages_for_country(cid)]
    /\ UNCHANGED <<genvars, catalogvars, sinkvars, clientvars, cmdvars,
                   language_table, popular_language_table>>

LanguageNext == \E cid \in 1..3 : LanguagesForCountry(cid)

LanguageSpec == LanguageInit /\ [][LanguageNext]_vars

\* The English names, in the order of the tuple, of those popular languages
\* recorded for country cid that are in the language table.
PopularNames(cid) ==
    IF cid \notin DOMAIN popular_language_table THEN <<>>
    ELSE LET known == SelectSeq(popular_language_table[cid],
                                LAMBDA id : id \in LanguageIds)
         IN [k \in 1..Len(known) |-> language_lookup(known[k])]

\* C27: get_languages_for_country returns, first language then second, the
\* English names of the popular languages recorded for the country that are
\* in the language table: one name for a country recorded with a first
\* language only, the empty list for a country without a record.
C27_PopularLanguageNames ==
    returned_languages # NoQuery =>
        returned_languages.result = Returned(PopularNames(returned_languages.country_id))

\* ======================================================================
\* gemini.py: generate_topics and generate_suggested_prompts
\* ======================================================================
\* Largest count asked for (num_topics, num_prompts) and longest list the
\* external model answers with.
MaxCount == 2
MaxAnswer == 3

AnswerLists == UNION {[1..n -> {"a", "b"}] : n \in 0..MaxAnswer}
Responses ==
    {JsonResponse(key, list) :
        key \in {"topics", "suggested_prompts"}, list \in AnswerLists}
    \cup {MalformedResponse}

\* The key of the response that the function returns the list of.
ResponseKey ==
    IF function = "generate_topics" THEN "topics" ELSE "suggested_prompts"

ClientInit ==
    /\ GenIdle
    /\ CatalogIdle
    /\ LangIdle
    /\ SinkIdle
    /\ CmdIdle
    /\ function \in {"generate_topics", "generate_suggested_prompts"}
    /\ num_strings \in 1..MaxCount
    /\ response = NoResponse
    /\ generated = Pending

\* response = gemini_client.models.generate_content(...): whatever the
\* external model answers to the prompt that names the count.
GenerateContent ==
    /\ response = NoResponse
    /\ generated = Pending
    /\ \E r \in Responses : response' = r
    /\ UNCHANGED <<genvars, catalogvars, langvars, sinkvars, cmdvars, function,
                   num_strings, generated>>

\* generate_content raises (network, quota, timeout).
GenerateContentRaises ==
    /\ response = NoResponse
    /\ generated = Pending
    /\ generated' = Raised("TimeoutError")
    /\ UNCHANGED <<genvars, catalogvars, langvars, sinkvars, cmdvars, function,
                   num_strings, response>>

\* response_dict = json.loads(response.text); return response_dict[key]
ParseResponse ==
    /\ response # NoResponse
    /\ generated = Pending
    /\ generated' =
          IF response.kind = "malformed" THEN Raised("ValueError")
          ELSE IF response.key # ResponseKey THEN Raised("KeyError")
          ELSE Returned(response.list)
    /\ UNCHANGED <<genvars, catalogvars, langvars, sinkvars, cmdvars, function,
                   num_strings, response>>

ClientNext ==
    \/ GenerateContent
    \/ GenerateContentRaises
    \/ ParseResponse

ClientSpec == ClientInit /\ [][ClientNext]_vars

\* C23: every list returned by generate_topics / generate_suggested_prompts
\* has at most as many strings as the count asked for (num_topics,
\* num_prompts), whatever the external model answers.
C23_AtMostCountStrings ==
    generated.kind = "returned" => Len(generated.value) <= num_strings

====
